---- MODULE Spec2Model ----
(***************************************************************************)
(* Support-ticket pipeline: main() of main.py driving run_router           *)
(* (agents/router.py), route_to_solver (agents/orchestrator.py), the       *)
(* solvers (agents/solvers.py) and calculate_metrics                       *)
(* (agents/evaluation.py).                                                 *)
(*                                                                         *)
(* Representation.  A Python str that the code compares or lower-cases is  *)
(* a tuple of one-character strings; a dict is a function from its keys;   *)
(* None and the "ROUTING FAILED" sentinel are one-field records so that    *)
(* they can be compared with dicts.  A step of the model is one blocking   *)
(* point of the program: an inference call returning, or a time.sleep.     *)
(***************************************************************************)
EXTENDS Integers, Sequences, FiniteSets, TLC

VARIABLES
    tickets_to_process,    \* main: the loaded ticket list
    batch_size,            \* main: BATCH_SIZE handed to create_batches
    evaluate_with_llm,     \* main: EVALUATE_SOLVER_QUALITY_WITH_LLM
    ticket_batches,        \* main: create_batches(tickets_to_process, size)
    i, j,                  \* main: batch index (0-based), ticket index in batch (1-based)
    pc,                    \* position of main()
    ticket_for_processing, \* main: the sanitized copy of the current ticket
    routing_slip,          \* main: what run_router returned
    start_time, now,       \* main: time.time() at the ticket's start; the clock
    all_results,           \* main: the result list
    requests,              \* every inference request issued so far, in order
    in_flight,             \* number of inference requests awaiting their answer
    response,              \* what the last inference call got, until the program moves on
    delays,                \* every time.sleep taken so far, in order
    metrics,               \* what calculate_metrics returned (None before)
    error,                 \* the exception that ended the run (None if none)
    output_file,           \* main: the content of results.json (None before)
    successful_solves,     \* calculate_metrics: the envelopes to judge
    k,                     \* calculate_metrics: index of the envelope being judged
    llm_eval_scores        \* calculate_metrics: the scores collected so far

vars == <<tickets_to_process, batch_size, evaluate_with_llm, ticket_batches, i, j, pc,
          ticket_for_processing, routing_slip, start_time, now, all_results,
          requests, in_flight, response, delays, metrics, error, output_file,
          successful_solves, k,
          llm_eval_scores>>

----------------------------------------------------------------------------
(* Bounds of the model *)

MaxTickets == 2

(* the longest input list of the runs that look at batches and pacing *)
MaxPacedTickets == 5

----------------------------------------------------------------------------
(* Program constants *)

BATCH_SIZE == 3
SLEEP_INTERVAL_SECONDS == 30
JUDGE_SLEEP_INTERVAL_SECONDS == 10

None == [py |-> "None"]
ROUTING_FAILED == [str |-> "ROUTING FAILED"]
EmptyDict == [py |-> "{}"]

GroundTruthKeys == {"ground_truth_category", "ground_truth_urgency", "ground_truth_team"}

(* TicketCategory: the values of the enumeration *)
BUGS == <<"B","U","G","S">>
QUERY == <<"Q","U","E","R","Y">>
REQUEST == <<"R","E","Q","U","E","S","T">>
SECURITY == <<"S","E","C","U","R","I","T","Y">>
CORRECTNESS == <<"C","O","R","R","E","C","T","N","E","S","S">>
MISCELLANEOUS == <<"M","I","S","C","E","L","L","A","N","E","O","U","S">>
TicketCategory == {BUGS, QUERY, REQUEST, SECURITY, CORRECTNESS, MISCELLANEOUS}

(* UrgencyLevel: the values of the enumeration *)
HIGH == <<"H","i","g","h">>
MEDIUM == <<"M","e","d","i","u","m">>
LOW == <<"L","o","w">>
UrgencyLevel == {HIGH, MEDIUM, LOW}

(* AssignedTeam: the values of the enumeration *)
FRONTEND == <<"F","r","o","n","t","e","n","d">>
BACKEND == <<"B","a","c","k","e","n","d">>
TEAM_SECURITY == <<"S","e","c","u","r","i","t","y">>
UI_UX == <<"U","I","/","U","X">>
CUSTOMER_SUPPORT == <<"C","u","s","t","o","m","e","r"," ","S","u","p","p","o","r","t">>
DOCUMENTATION == <<"D","o","c","u","m","e","n","t","a","t","i","o","n">>
GENERAL_TRIAGE == <<"G","e","n","e","r","a","l"," ","T","r","i","a","g","e">>
AssignedTeam == {FRONTEND, BACKEND, TEAM_SECURITY, UI_UX, CUSTOMER_SUPPORT,
                 DOCUMENTATION, GENERAL_TRIAGE}

----------------------------------------------------------------------------
(* Inputs: the tickets of the input file and the answers of the inference  *)
(* service.                                                                *)

(* Ground-truth labels as a labeller writes them: in a case of their own. *)
GtCategories == {<<"b","u","g","s">>}
GtUrgencies == {<<"l","o","w">>}
GtTeams == {<<"b","a","c","k","e","n","d">>}

(* A ticket is a dict; each ground-truth key is there or not. *)
TicketWith(keys, c, u, t) ==
    [key \in {"ticket_id"} \cup keys |->
        CASE key = "ticket_id" -> "T"
          [] key = "ground_truth_category" -> c
          [] key = "ground_truth_urgency" -> u
          [] key = "ground_truth_team" -> t]

(* The labellings of the input file: no label, a category only, urgency and
   team without a category, every label. *)
GtKeySets ==
    {{}, {"ground_truth_category"}, {"ground_truth_urgency", "ground_truth_team"},
     GroundTruthKeys}

TicketUniverse ==
    {TicketWith(keys, c, u, t) : keys \in GtKeySets,
                                 c \in GtCategories, u \in GtUrgencies, t \in GtTeams}

(* The tickets of the runs that also judge the solver outputs. *)
JudgedTicketUniverse ==
    {tk \in TicketUniverse : DOMAIN tk \cap GroundTruthKeys \in {{}, GroundTruthKeys}}

(* The three failures of an inference call (spec 4.1): the exception classes
   the try blocks of run_router and _run_solver tell apart. *)
FailureKinds == {"RateLimited", "MalformedOutput", "Unexpected"}

(* What the service may answer to a routing request, before the agent
   validates it against RoutingSlip. *)
URGENT == <<"U","R","G","E","N","T">>
CRITICAL == <<"C","r","i","t","i","c","a","l">>
RouterAnswers ==
    {[category |-> BUGS, urgency |-> HIGH, summary |-> "summary"],
     [category |-> QUERY, urgency |-> LOW, summary |-> "summary"],
     [category |-> URGENT, urgency |-> HIGH, summary |-> "summary"],
     [category |-> BUGS, urgency |-> CRITICAL, summary |-> "summary"]}

(* What the service may answer to a solver request: the assigned team (the
   other fields of the six output shapes are not read by the program). *)
SolverAnswers ==
    {[assigned_team |-> BACKEND], [assigned_team |-> TEAM_SECURITY],
     [assigned_team |-> <<"b","a","c","k","e","n","d">>]}

(* What the service may answer to a judgment request. *)
JudgeAnswers ==
    {[relevance |-> 5, clarity |-> 4, actionability |-> 3],
     [relevance |-> 2, clarity |-> 1, actionability |-> 1],
     [relevance |-> 6, clarity |-> 1, actionability |-> 1]}

(* What an inference call gets: an answer of the service, or a failure. *)
Answer(answer) == [answer |-> answer]
Failure(kind) == [failure |-> kind]
IsFailure(resp) == "failure" \in DOMAIN resp
Responses(answers) ==
    {Answer(answer) : answer \in answers} \cup {Failure(kind) : kind \in FailureKinds}

SeqsUpTo(S, n) == UNION {[1..m -> S] : m \in 0..n}

----------------------------------------------------------------------------
(* main.py *)

Min(a, b) == IF a < b THEN a ELSE b

(* create_batches keeping the full batches only *)
create_batches_full_only(data, size) ==
    [b \in 1..(Len(data) \div size) |-> SubSeq(data, (b - 1) * size + 1, b * size)]

(* create_batches: [data[i:i + size] for i in range(0, len(data), size)] *)
create_batches(data, size) ==
    [b \in 1..((Len(data) + size - 1) \div size) |->
        SubSeq(data, (b - 1) * size + 1, Min(b * size, Len(data)))]

(* ticket.copy() followed by the three pop(key, None) *)
Sanitize(ticket) == [key \in DOMAIN ticket \ GroundTruthKeys |-> ticket[key]]

(* dict.get(key, default) *)
Get(d, key, default) == IF key \in DOMAIN d THEN d[key] ELSE default

----------------------------------------------------------------------------
(* agents/router.py *)

(* The fields run_router embeds in the prompt, each with its default. *)
RouterPromptDefaults ==
    [ticket_id |-> "N/A", customer_tier |-> "N/A", subject |-> "", message |-> "",
     previous_tickets |-> 0, monthly_revenue |-> 0, account_age_days |-> 0]

RouterPrompt(ticket) ==
    [key \in DOMAIN RouterPromptDefaults |-> Get(ticket, key, RouterPromptDefaults[key])]

(* A member of an Enum class, as opposed to its value. *)
Member(cls, value) == [enum |-> cls, value |-> value]

(* a validation that lets any category and urgency through *)
AnyRoutingSlip(answer) == DOMAIN answer = {"category", "urgency", "summary"}

(* The agent's validation of an answer against output_type=RoutingSlip: the
   answer becomes a RoutingSlip or the call raises. *)
ValidRoutingSlip(answer) ==
    answer.category \in TicketCategory /\ answer.urgency \in UrgencyLevel

ParseRoutingSlip(answer) ==
    [category |-> Member("TicketCategory", answer.category),
     urgency |-> Member("UrgencyLevel", answer.urgency),
     summary |-> answer.summary]

(* routing_slip.model_dump(mode='json'): enum members become their values *)
ModelDumpSlip(slip) ==
    [category |-> slip.category.value, urgency |-> slip.urgency.value,
     summary |-> slip.summary]

----------------------------------------------------------------------------
(* agents/solvers.py and agents/orchestrator.py *)

ValidSolverOutput(answer) == answer.assigned_team \in AssignedTeam

ParseSolverOutput(answer) == [assigned_team |-> Member("AssignedTeam", answer.assigned_team)]

ModelDumpSolverOutput(obj) == [assigned_team |-> obj.assigned_team.value]

(* a handler map with the bug and query handlers exchanged *)
HandlerNameSwapped(category) ==
    CASE category = Member("TicketCategory", BUGS) -> "QuerySolver"
      [] category = Member("TicketCategory", QUERY) -> "BugSolver"
      [] category = Member("TicketCategory", REQUEST) -> "FeatureRequestSolver"
      [] category = Member("TicketCategory", SECURITY) -> "SecuritySolver"
      [] category = Member("TicketCategory", CORRECTNESS) -> "CorrectnessSolver"
      [] category = Member("TicketCategory", MISCELLANEOUS) -> "MiscSolver"
      [] OTHER -> "MiscSolver"

(* _HANDLER_MAP.get(routing_slip.category, solve_misc_ticket), by the name
   the handler gives to _process_solver_output *)
HandlerName(category) ==
    CASE category = Member("TicketCategory", BUGS) -> "BugSolver"
      [] category = Member("TicketCategory", QUERY) -> "QuerySolver"
      [] category = Member("TicketCategory", REQUEST) -> "FeatureRequestSolver"
      [] category = Member("TicketCategory", SECURITY) -> "SecuritySolver"
      [] category = Member("TicketCategory", CORRECTNESS) -> "CorrectnessSolver"
      [] category = Member("TicketCategory", MISCELLANEOUS) -> "MiscSolver"
      [] OTHER -> "MiscSolver"

(* the model_name each generate_* function hands to _run_solver *)
ModelName(solver) ==
    CASE solver = "BugSolver" -> "BugReport"
      [] solver = "QuerySolver" -> "DraftResponse"
      [] solver = "FeatureRequestSolver" -> "FeatureRequestReport"
      [] solver = "SecuritySolver" -> "SecurityAlert"
      [] solver = "CorrectnessSolver" -> "CorrectnessReview"
      [] solver = "MiscSolver" -> "GeneralTriage"

(* a wrapping that reports every result as a success *)
process_solver_output_all_success(solver_name, result_obj) ==
    [status |-> "SUCCESS", solver |-> solver_name,
     data |-> IF result_obj # None THEN ModelDumpSolverOutput(result_obj)
              ELSE [str |-> "Could not generate valid structured output."]]

(* _process_solver_output *)
process_solver_output(solver_name, result_obj) ==
    IF result_obj # None
    THEN [status |-> "SUCCESS", solver |-> solver_name,
          data |-> ModelDumpSolverOutput(result_obj)]
    ELSE [status |-> "FAILURE", solver |-> solver_name,
          data |-> [str |-> "Could not generate valid structured output."]]

----------------------------------------------------------------------------
(* agents/evaluation.py *)

(* str.lower(), character by character *)
LowerChar(c) ==
    CASE c = "A" -> "a" [] c = "B" -> "b" [] c = "C" -> "c" [] c = "D" -> "d"
      [] c = "E" -> "e" [] c = "F" -> "f" [] c = "G" -> "g" [] c = "H" -> "h"
      [] c = "I" -> "i" [] c = "J" -> "j" [] c = "K" -> "k" [] c = "L" -> "l"
      [] c = "M" -> "m" [] c = "N" -> "n" [] c = "O" -> "o" [] c = "P" -> "p"
      [] c = "Q" -> "q" [] c = "R" -> "r" [] c = "S" -> "s" [] c = "T" -> "t"
      [] c = "U" -> "u" [] c = "V" -> "v" [] c = "W" -> "w" [] c = "X" -> "x"
      [] c = "Y" -> "y" [] c = "Z" -> "z" [] OTHER -> c

Lower(str) == [n \in 1..Len(str) |-> LowerChar(str[n])]

(* the truth value of a str or None in an if: None and "" are false *)
Truthy(d, key) == key \in DOMAIN d /\ d[key] # <<>>

(* a comparison that minds the case *)
SameLabelExact(gt, predicted) == gt = predicted

(* the comparison of a ground-truth label with a predicted value *)
SameLabel(gt, predicted) == Lower(gt) = Lower(predicted)

(* f"{x:.2f}" of the quotient num / den, in hundredths (round half to even) *)
Hundredths(num, den) ==
    LET q == (100 * num) \div den
        r == (100 * num) % den
    IN  IF 2 * r > den \/ (2 * r = den /\ q % 2 = 1) THEN q + 1 ELSE q

ZeroCounters ==
    [correctly_routed |-> 0, routing_attempts |-> 0,
     correctly_urgent |-> 0, urgency_attempts |-> 0,
     correctly_assigned_team |-> 0, team_assignment_attempts |-> 0,
     raised |-> FALSE]

(* a router half that counts every routed envelope as attempted *)
RouterCountsEveryEnvelope(c, r) ==
    IF r.router_output # ROUTING_FAILED
    THEN LET gt == r.original_ticket
             hasCat == Truthy(gt, "ground_truth_category")
             hasUrg == Truthy(gt, "ground_truth_urgency")
         IN  [c EXCEPT
                 !.routing_attempts = @ + 1,
                 !.correctly_routed =
                     IF hasCat /\ SameLabel(gt["ground_truth_category"],
                                            Get(r.router_output, "category", <<>>))
                     THEN @ + 1 ELSE @,
                 !.urgency_attempts = @ + 1,
                 !.correctly_urgent =
                     IF hasUrg /\ SameLabel(gt["ground_truth_urgency"],
                                            Get(r.router_output, "urgency", <<>>))
                     THEN @ + 1 ELSE @]
    ELSE c

(* the router half of the loop body (lines 50-61) *)
RouterCounts(c, r) ==
    IF r.router_output # ROUTING_FAILED
    THEN LET gt == r.original_ticket
             hasCat == Truthy(gt, "ground_truth_category")
             hasUrg == Truthy(gt, "ground_truth_urgency")
         IN  [c EXCEPT
                 !.routing_attempts = IF hasCat THEN @ + 1 ELSE @,
                 !.correctly_routed =
                     IF hasCat /\ SameLabel(gt["ground_truth_category"],
                                            Get(r.router_output, "category", <<>>))
                     THEN @ + 1 ELSE @,
                 !.urgency_attempts = IF hasUrg THEN @ + 1 ELSE @,
                 !.correctly_urgent =
                     IF hasUrg /\ SameLabel(gt["ground_truth_urgency"],
                                            Get(r.router_output, "urgency", <<>>))
                     THEN @ + 1 ELSE @]
    ELSE c

(* a solver half that counts a team attempt whatever the solver status *)
SolverCountsAnyStatus(c, r) ==
    IF r.solver_output = None
    THEN [c EXCEPT !.raised = TRUE]
    ELSE IF Truthy(r.original_ticket, "ground_truth_team")
         THEN [c EXCEPT
                 !.team_assignment_attempts = @ + 1,
                 !.correctly_assigned_team =
                     IF SameLabel(r.original_ticket["ground_truth_team"],
                                  Get(r.solver_output.data, "assigned_team", <<>>))
                     THEN @ + 1 ELSE @]
         ELSE c

(* the solver half of the loop body (lines 64-71): r.get("solver_output", {})
   is None when the key holds None, and None has no get *)
SolverCounts(c, r) ==
    IF r.solver_output = None
    THEN [c EXCEPT !.raised = TRUE]
    ELSE IF r.solver_output.status = "SUCCESS"
              /\ Truthy(r.original_ticket, "ground_truth_team")
         THEN [c EXCEPT
                 !.team_assignment_attempts = @ + 1,
                 !.correctly_assigned_team =
                     IF SameLabel(r.original_ticket["ground_truth_team"],
                                  Get(r.solver_output.data, "assigned_team", <<>>))
                     THEN @ + 1 ELSE @]
         ELSE c

(* the for loop over results (lines 48-71); it stops at the first exception *)
RECURSIVE MetricsLoop(_, _, _)
MetricsLoop(results, n, c) ==
    IF n > Len(results) \/ c.raised THEN c
    ELSE MetricsLoop(results, n + 1, SolverCounts(RouterCounts(c, results[n]), results[n]))

RECURSIVE SumTimes(_, _)
SumTimes(results, n) ==
    IF n = 0 THEN 0 ELSE SumTimes(results, n - 1) + results[n].processing_time_seconds

(* r.get("solver_output", {}).get("status") == "SUCCESS" (lines 78, 101); the
   actions evaluate it only once the loop of lines 48-71 got through, when no
   solver_output is None *)
IsSuccess(r) == r.solver_output # None /\ r.solver_output.status = "SUCCESS"

(* the successful envelopes up to the first that is not *)
RECURSIVE SelectSuccessPrefix(_)
SelectSuccessPrefix(results) ==
    IF results = <<>> THEN <<>>
    ELSE IF IsSuccess(Head(results))
         THEN <<Head(results)>> \o SelectSuccessPrefix(Tail(results))
         ELSE <<>>

RECURSIVE SelectSuccess(_)
SelectSuccess(results) ==
    IF results = <<>> THEN <<>>
    ELSE IF IsSuccess(Head(results))
         THEN <<Head(results)>> \o SelectSuccess(Tail(results))
         ELSE SelectSuccess(Tail(results))

(* an accuracy that is 100% when nothing was attempted *)
AccuracyVacuous(matched, attempts) ==
    [percent |-> IF attempts > 0 THEN Hundredths(matched * 100, attempts) ELSE 10000,
     matched |-> matched, attempts |-> attempts]

(* "{p:.2f}% ({matched}/{attempts})" with p = matched / attempts * 100, or 0 *)
Accuracy(matched, attempts) ==
    [percent |-> IF attempts > 0 THEN Hundredths(matched * 100, attempts) ELSE 0,
     matched |-> matched, attempts |-> attempts]

(* the metrics dict of lines 81-95, for a loop that ended with counters c *)
MetricsDict(results, c) ==
    LET total_tickets == Len(results)
    IN  [overall_performance |->
            [total_tickets_processed |-> total_tickets,
             average_processing_time_seconds |->
                 Hundredths(SumTimes(results, total_tickets), total_tickets)],
         router_evaluation |->
            [routing_accuracy_percent |-> Accuracy(c.correctly_routed, c.routing_attempts),
             urgency_accuracy_percent |-> Accuracy(c.correctly_urgent, c.urgency_attempts)],
         solver_evaluation |->
            [solver_success_rate_percent |->
                 Hundredths(Len(SelectSuccess(results)) * 100, total_tickets),
             team_assignment_accuracy_percent |->
                 Accuracy(c.correctly_assigned_team, c.team_assignment_attempts)]]

RECURSIVE SumSeq(_)
SumSeq(q) == IF q = <<>> THEN 0 ELSE Head(q) + SumSeq(Tail(q))

(* f"{statistics.mean(scores):.2f} / 5" *)
MeanScore(scores) == Hundredths(SumSeq(scores), Len(scores))

(* metrics["solver_evaluation"]["llm_as_judge_metrics"] = {...} (lines 113-118) *)
WithJudgeMetrics(m, scores) ==
    [m EXCEPT !.solver_evaluation =
        [key \in DOMAIN m.solver_evaluation \cup {"llm_as_judge_metrics"} |->
            IF key = "llm_as_judge_metrics"
            THEN [evaluations_performed |-> Len(scores.relevance),
                  avg_relevance_score |-> MeanScore(scores.relevance),
                  avg_clarity_score |-> MeanScore(scores.clarity),
                  avg_actionability_score |-> MeanScore(scores.actionability)]
            ELSE m.solver_evaluation[key]]]

(* the validation of an answer against output_type=SolverEvaluationScore *)
ValidScore(answer) ==
    /\ answer.relevance \in 1..5
    /\ answer.clarity \in 1..5
    /\ answer.actionability \in 1..5

----------------------------------------------------------------------------
(* The run of main() *)

(* Batch size, pacing and the judgment switch are configuration (module
   constants of main.py); a run is checked for every batch size up to the
   shipped one and for both values of the switch. *)
BatchSizes == 1..BATCH_SIZE

Init ==
    /\ evaluate_with_llm \in BOOLEAN
    /\ tickets_to_process \in
           SeqsUpTo(IF evaluate_with_llm THEN JudgedTicketUniverse ELSE TicketUniverse,
                    MaxTickets)
    /\ batch_size \in BatchSizes
    /\ ticket_batches = create_batches(tickets_to_process, batch_size)
    /\ i = 0
    /\ j = 1
    /\ pc = IF Len(ticket_batches) = 0 THEN "save" ELSE "ticket"
    /\ ticket_for_processing = None
    /\ routing_slip = None
    /\ start_time = 0
    /\ now = 0
    /\ all_results = <<>>
    /\ requests = <<>>
    /\ in_flight = 0
    /\ response = None
    /\ delays = <<>>
    /\ metrics = None
    /\ error = None
    /\ output_file = None
    /\ successful_solves = <<>>
    /\ k = 0
    /\ llm_eval_scores = [relevance |-> <<>>, clarity |-> <<>>, actionability |-> <<>>]

num_batches == Len(ticket_batches)

(* the ticket the loops of lines 40 and 42 are at *)
ticket == ticket_batches[i + 1][j]

(* its number in the input list, counted from 1, as the loops reach it *)
ticket_no == i * batch_size + j

metricsVars == <<metrics, error, output_file, successful_solves, k, llm_eval_scores>>
configVars == <<tickets_to_process, batch_size, evaluate_with_llm, ticket_batches>>

(* a loop that pauses after every batch, the last one included *)
AppendRecordPausesAfterLast(record) ==
    /\ all_results' = Append(all_results,
           [key \in DOMAIN record \cup {"processing_time_seconds"} |->
               IF key = "processing_time_seconds" THEN now' - start_time
               ELSE record[key]])
    /\ IF j < Len(ticket_batches[i + 1])
       THEN pc' = "ticket" /\ j' = j + 1
       ELSE /\ j' = j
            /\ pc' = "sleeping"
    /\ i' = i

(* lines 64-68: the record is timed and appended, and the loops move on: to
   the next ticket of the batch, to the sleep after the batch, or out *)
AppendRecord(record) ==
    /\ all_results' = Append(all_results,
           [key \in DOMAIN record \cup {"processing_time_seconds"} |->
               IF key = "processing_time_seconds" THEN now' - start_time
               ELSE record[key]])
    /\ IF j < Len(ticket_batches[i + 1])
       THEN pc' = "ticket" /\ j' = j + 1
       ELSE /\ j' = j
            /\ pc' = IF i < num_batches - 1 THEN "sleeping" ELSE "save"
    /\ i' = i

(* lines 43-53 and run_router up to run_sync: the ticket is copied and
   stripped, and the routing request goes out *)
StartTicket ==
    /\ pc = "ticket"
    /\ start_time' = now
    /\ ticket_for_processing' = Sanitize(ticket)
    /\ requests' = Append(requests,
           [kind |-> "router", ticket_no |-> ticket_no,
            payload |-> RouterPrompt(ticket_for_processing')])
    /\ in_flight' = in_flight + 1
    /\ response' = None
    /\ pc' = "routing"
    /\ UNCHANGED <<configVars, i, j, routing_slip, now, all_results, delays, metricsVars>>

(* a solver request that goes out while the routing request is still open *)
RouterSucceedsOverlapping(answer) ==
    /\ pc = "routing"
    /\ ValidRoutingSlip(answer)
    /\ response' = Answer(answer)
    /\ routing_slip' = ParseRoutingSlip(answer)
    /\ now' = now + 1
    /\ requests' = Append(requests,
           [kind |-> "solver", ticket_no |-> ticket_no,
            solver |-> HandlerName(routing_slip'.category),
            model_name |-> ModelName(HandlerName(routing_slip'.category)),
            payload |-> ticket_for_processing,
            summary |-> routing_slip'.summary])
    /\ in_flight' = in_flight + 1
    /\ pc' = "solving"
    /\ UNCHANGED <<configVars, i, j, ticket_for_processing, start_time, all_results,
                   delays, metricsVars>>

(* a routed ticket recorded as solved at once, with no solver call *)
RouterSucceedsSolvedAtOnce(answer) ==
    /\ pc = "routing"
    /\ ValidRoutingSlip(answer)
    /\ response' = Answer(answer)
    /\ routing_slip' = ParseRoutingSlip(answer)
    /\ now' = now + 1
    /\ in_flight' = in_flight - 1
    /\ AppendRecord([original_ticket |-> ticket,
                     router_output |-> ModelDumpSlip(routing_slip'),
                     solver_output |->
                         process_solver_output(HandlerName(routing_slip'.category),
                             ParseSolverOutput([assigned_team |-> BACKEND]))])
    /\ UNCHANGED <<configVars, ticket_for_processing, start_time, requests, delays,
                   metricsVars>>

(* run_router returns a slip (router.py 77-84); main dispatches it (line 55,
   orchestrator.py 55-59) and the handler's solver request goes out
   (solvers.py 78-83) *)
RouterSucceeds(answer) ==
    /\ pc = "routing"
    /\ ValidRoutingSlip(answer)
    /\ response' = Answer(answer)
    /\ routing_slip' = ParseRoutingSlip(answer)
    /\ now' = now + 1
    /\ requests' = Append(requests,
           [kind |-> "solver", ticket_no |-> ticket_no,
            solver |-> HandlerName(routing_slip'.category),
            model_name |-> ModelName(HandlerName(routing_slip'.category)),
            payload |-> ticket_for_processing,
            summary |-> routing_slip'.summary])
    /\ in_flight' = in_flight
    /\ pc' = "solving"
    /\ UNCHANGED <<configVars, i, j, ticket_for_processing, start_time, all_results,
                   delays, metricsVars>>

(* a routing failure that falls through to the general-triage handler *)
RouterFailsFallsThrough(resp) ==
    /\ pc = "routing"
    /\ IF IsFailure(resp) THEN TRUE ELSE ~ValidRoutingSlip(resp.answer)
    /\ response' = resp
    /\ routing_slip' = None
    /\ now' = now + 1
    /\ in_flight' = in_flight - 1
    /\ AppendRecord([original_ticket |-> ticket, router_output |-> ROUTING_FAILED,
                     solver_output |-> process_solver_output("MiscSolver", None)])
    /\ UNCHANGED <<configVars, ticket_for_processing, start_time, requests, delays,
                   metricsVars>>

(* a routing failure that run_router does not catch *)
RouterFailsAborts(resp) ==
    /\ pc = "routing"
    /\ IF IsFailure(resp) THEN TRUE ELSE ~ValidRoutingSlip(resp.answer)
    /\ response' = resp
    /\ now' = now + 1
    /\ in_flight' = in_flight - 1
    /\ error' = [exception |-> "Unexpected"]
    /\ pc' = "crashed"
    /\ UNCHANGED <<configVars, i, j, ticket_for_processing, routing_slip, start_time,
                   all_results, requests, delays, metrics, output_file,
                   successful_solves, k, llm_eval_scores>>

(* a router that asks once more after a rate-limit error *)
RouterFailsRetries(resp) ==
    /\ pc = "routing"
    /\ IF IsFailure(resp) THEN TRUE ELSE ~ValidRoutingSlip(resp.answer)
    /\ response' = resp
    /\ routing_slip' = None
    /\ now' = now + 1
    /\ IF /\ resp = Failure("RateLimited")
          /\ Cardinality({q \in 1..Len(requests) : requests[q].ticket_no = ticket_no}) < 2
       THEN /\ requests' = Append(requests, requests[Len(requests)])
            /\ in_flight' = in_flight
            /\ UNCHANGED <<i, j, pc, all_results>>
       ELSE /\ in_flight' = in_flight - 1
            /\ AppendRecord([original_ticket |-> ticket,
                             router_output |-> ROUTING_FAILED,
                             solver_output |-> None])
            /\ UNCHANGED requests
    /\ UNCHANGED <<configVars, ticket_for_processing, start_time, delays, metricsVars>>

(* run_sync raises in run_router (router.py 85-93): run_router returns None
   and main records the failure (line 62).  An answer that is not a
   RoutingSlip is raised by the agent as an exception like any other. *)
RouterFails(resp) ==
    /\ pc = "routing"
    /\ IF IsFailure(resp) THEN TRUE ELSE ~ValidRoutingSlip(resp.answer)
    /\ response' = resp
    /\ routing_slip' = None
    /\ now' = now + 1
    /\ in_flight' = in_flight - 1
    /\ AppendRecord([original_ticket |-> ticket, router_output |-> ROUTING_FAILED,
                     solver_output |-> None])
    /\ UNCHANGED <<configVars, ticket_for_processing, start_time, requests, delays,
                   metricsVars>>

(* a loop that strips the ticket itself instead of a copy: the record holds
   the stripped ticket *)
SolverSucceedsStripsOriginal(answer) ==
    /\ pc = "solving"
    /\ ValidSolverOutput(answer)
    /\ response' = Answer(answer)
    /\ now' = now + 1
    /\ in_flight' = in_flight - 1
    /\ AppendRecord([original_ticket |-> ticket_for_processing,
                     router_output |-> ModelDumpSlip(routing_slip),
                     solver_output |->
                         process_solver_output(HandlerName(routing_slip.category),
                                               ParseSolverOutput(answer))])
    /\ UNCHANGED <<configVars, ticket_for_processing, routing_slip, start_time, requests,
                   delays, metricsVars>>

(* _run_solver returns the output (solvers.py 83-85); the handler wraps it and
   main records it (lines 56-60) *)
SolverSucceeds(answer) ==
    /\ pc = "solving"
    /\ ValidSolverOutput(answer)
    /\ response' = Answer(answer)
    /\ now' = now + 1
    /\ in_flight' = in_flight - 1
    /\ AppendRecord([original_ticket |-> ticket,
                     router_output |-> ModelDumpSlip(routing_slip),
                     solver_output |->
                         process_solver_output(HandlerName(routing_slip.category),
                                               ParseSolverOutput(answer))])
    /\ UNCHANGED <<configVars, ticket_for_processing, routing_slip, start_time, requests,
                   delays, metricsVars>>

(* run_sync raises in _run_solver (solvers.py 86-94): it returns None *)
SolverFails(resp) ==
    /\ pc = "solving"
    /\ IF IsFailure(resp) THEN TRUE ELSE ~ValidSolverOutput(resp.answer)
    /\ response' = resp
    /\ now' = now + 1
    /\ in_flight' = in_flight - 1
    /\ AppendRecord([original_ticket |-> ticket,
                     router_output |-> ModelDumpSlip(routing_slip),
                     solver_output |->
                         process_solver_output(HandlerName(routing_slip.category), None)])
    /\ UNCHANGED <<configVars, ticket_for_processing, routing_slip, start_time, requests,
                   delays, metricsVars>>

(* a pause after which the result list starts again for the next batch *)
SleepForgetsBatch ==
    /\ pc = "sleeping"
    /\ delays' = Append(delays, [kind |-> "batch", seconds |-> SLEEP_INTERVAL_SECONDS,
                                 after_requests |-> Len(requests),
                                 after_results |-> Len(all_results)])
    /\ now' = now + SLEEP_INTERVAL_SECONDS
    /\ i' = i + 1
    /\ j' = 1
    /\ pc' = "ticket"
    /\ response' = None
    /\ all_results' = <<>>
    /\ UNCHANGED <<configVars, ticket_for_processing, routing_slip, start_time,
                   requests, in_flight, metricsVars>>

(* lines 68-70: the pause after a batch that is not the last *)
Sleep ==
    /\ pc = "sleeping"
    /\ delays' = Append(delays, [kind |-> "batch", seconds |-> SLEEP_INTERVAL_SECONDS,
                                 after_requests |-> Len(requests),
                                 after_results |-> Len(all_results)])
    /\ now' = now + SLEEP_INTERVAL_SECONDS
    /\ i' = i + 1
    /\ j' = 1
    /\ pc' = "ticket"
    /\ response' = None
    /\ UNCHANGED <<configVars, ticket_for_processing, routing_slip, start_time,
                   all_results, requests, in_flight, metricsVars>>

pipelineVars == <<i, j, ticket_for_processing, routing_slip, start_time, all_results>>

(* lines 72-73: json.dump(all_results) into results.json *)
SaveResults ==
    /\ pc = "save"
    /\ output_file' = [json |-> all_results]
    /\ response' = None
    /\ pc' = "metrics"
    /\ UNCHANGED <<configVars, pipelineVars, now, requests, in_flight, delays, metrics,
                   error, successful_solves, k, llm_eval_scores>>

Exception(name) == [exception |-> name]

(* a calculate_metrics without the early return of line 37: line 41 makes the
   average 0 and the guards of lines 74-79 make the percentages 0 *)
MetricsOfNothingAllZero ==
    /\ pc = "metrics"
    /\ Len(all_results) = 0
    /\ metrics' =
           [overall_performance |->
               [total_tickets_processed |-> 0, average_processing_time_seconds |-> 0],
            router_evaluation |->
               [routing_accuracy_percent |-> Accuracy(0, 0),
                urgency_accuracy_percent |-> Accuracy(0, 0)],
            solver_evaluation |->
               [solver_success_rate_percent |-> 0,
                team_assignment_accuracy_percent |-> Accuracy(0, 0)]]
    /\ pc' = "done"
    /\ UNCHANGED <<configVars, pipelineVars, now, requests, in_flight, response, delays, error,
                   output_file, successful_solves, k, llm_eval_scores>>

(* evaluation.py 36-37, main.py 84-85: no results, calculate_metrics returns {} *)
MetricsOfNothing ==
    /\ pc = "metrics"
    /\ Len(all_results) = 0
    /\ metrics' = EmptyDict
    /\ pc' = "done"
    /\ UNCHANGED <<configVars, pipelineVars, now, requests, in_flight, response, delays, error,
                   output_file, successful_solves, k, llm_eval_scores>>

(* evaluation.py 48-65: the loop raises AttributeError, which nothing catches *)
MetricsLoopRaises ==
    /\ pc = "metrics"
    /\ Len(all_results) > 0
    /\ MetricsLoop(all_results, 1, ZeroCounters).raised
    /\ error' = Exception("AttributeError")
    /\ pc' = "crashed"
    /\ UNCHANGED <<configVars, pipelineVars, now, requests, in_flight, response, delays, metrics,
                   output_file, successful_solves, k, llm_eval_scores>>

(* a calculate_metrics that uses up the list it is given *)
MetricsReturnsConsuming ==
    /\ pc = "metrics"
    /\ Len(all_results) > 0
    /\ LET c == MetricsLoop(all_results, 1, ZeroCounters)
       IN  /\ ~c.raised
           /\ ~evaluate_with_llm \/ SelectSuccess(all_results) = <<>>
           /\ metrics' = MetricsDict(all_results, c)
    /\ pc' = "done"
    /\ all_results' = Tail(all_results)
    /\ UNCHANGED <<configVars, i, j, ticket_for_processing, routing_slip, start_time,
                   now, requests, in_flight, response, delays, error,
                   output_file, successful_solves, k, llm_eval_scores>>

(* evaluation.py 40-101, 112, 120: the metrics are computed, and returned
   at once when there is nothing to judge *)
MetricsReturns ==
    /\ pc = "metrics"
    /\ Len(all_results) > 0
    /\ LET c == MetricsLoop(all_results, 1, ZeroCounters)
       IN  /\ ~c.raised
           /\ ~evaluate_with_llm \/ SelectSuccess(all_results) = <<>>
           /\ metrics' = MetricsDict(all_results, c)
    /\ pc' = "done"
    /\ UNCHANGED <<configVars, pipelineVars, now, requests, in_flight, response, delays, error,
                   output_file, successful_solves, k, llm_eval_scores>>

(* run_solver_evaluator up to run_sync (evaluation.py 22-27), called at line
   104 with the envelope's original ticket and solver output *)
JudgeRequest(result) ==
    [kind |-> "judge", payload |-> result.original_ticket,
     solver_output |-> result.solver_output]

(* evaluation.py 40-104: the metrics are computed and the first judgment
   request goes out *)
MetricsStartsJudging ==
    /\ pc = "metrics"
    /\ Len(all_results) > 0
    /\ LET c == MetricsLoop(all_results, 1, ZeroCounters)
       IN  /\ ~c.raised
           /\ evaluate_with_llm
           /\ SelectSuccess(all_results) # <<>>
           /\ metrics' = MetricsDict(all_results, c)
    /\ successful_solves' = SelectSuccess(all_results)
    /\ k' = 1
    /\ requests' = Append(requests, JudgeRequest(successful_solves'[1]))
    /\ in_flight' = in_flight + 1
    /\ pc' = "judging"
    /\ UNCHANGED <<configVars, pipelineVars, now, response, delays, error, output_file,
                   llm_eval_scores>>

(* the for loop of line 103 moves on: to the next judgment request, or to
   lines 112-120, where statistics.mean raises StatisticsError on an empty
   list *)
AfterJudgment ==
    IF k < Len(successful_solves)
    THEN /\ k' = k + 1
         /\ requests' = Append(requests, JudgeRequest(successful_solves[k + 1]))
         /\ in_flight' = in_flight
         /\ pc' = "judging"
         /\ UNCHANGED <<metrics, error>>
    ELSE /\ k' = k
         /\ requests' = requests
         /\ in_flight' = in_flight - 1
         /\ IF Len(llm_eval_scores'.relevance) = 0
            THEN /\ error' = Exception("StatisticsError")
                 /\ pc' = "crashed"
                 /\ metrics' = metrics
            ELSE /\ metrics' = WithJudgeMetrics(metrics, llm_eval_scores')
                 /\ pc' = "done"
                 /\ error' = error

(* a judge loop that writes the score into the envelope it judged *)
JudgeSucceedsAnnotates(answer) ==
    /\ pc = "judging"
    /\ ValidScore(answer)
    /\ response' = Answer(answer)
    /\ llm_eval_scores' =
           [relevance |-> Append(llm_eval_scores.relevance, answer.relevance),
            clarity |-> Append(llm_eval_scores.clarity, answer.clarity),
            actionability |-> Append(llm_eval_scores.actionability, answer.actionability)]
    /\ delays' = Append(delays, [kind |-> "judge",
                                 seconds |-> JUDGE_SLEEP_INTERVAL_SECONDS,
                                 after_requests |-> Len(requests),
                                 after_results |-> Len(all_results)])
    /\ now' = now + 1 + JUDGE_SLEEP_INTERVAL_SECONDS
    /\ AfterJudgment
    /\ all_results' =
           [n \in 1..Len(all_results) |->
               IF all_results[n] = successful_solves[k]
               THEN [all_results[n] EXCEPT !.solver_output.data = answer]
               ELSE all_results[n]]
    /\ UNCHANGED <<configVars, i, j, ticket_for_processing, routing_slip, start_time,
                   output_file, successful_solves>>

(* run_solver_evaluator returns a score (evaluation.py 27-29): it is
   collected and the pause follows (lines 105-110) *)
JudgeSucceeds(answer) ==
    /\ pc = "judging"
    /\ ValidScore(answer)
    /\ response' = Answer(answer)
    /\ llm_eval_scores' =
           [relevance |-> Append(llm_eval_scores.relevance, answer.relevance),
            clarity |-> Append(llm_eval_scores.clarity, answer.clarity),
            actionability |-> Append(llm_eval_scores.actionability, answer.actionability)]
    /\ delays' = Append(delays, [kind |-> "judge",
                                 seconds |-> JUDGE_SLEEP_INTERVAL_SECONDS,
                                 after_requests |-> Len(requests),
                                 after_results |-> Len(all_results)])
    /\ now' = now + 1 + JUDGE_SLEEP_INTERVAL_SECONDS
    /\ AfterJudgment
    /\ UNCHANGED <<configVars, pipelineVars, output_file, successful_solves>>

(* run_sync raises in run_solver_evaluator (evaluation.py 30-32): it returns
   None and the loop body does nothing *)
JudgeFails(resp) ==
    /\ pc = "judging"
    /\ IF IsFailure(resp) THEN TRUE ELSE ~ValidScore(resp.answer)
    /\ response' = resp
    /\ llm_eval_scores' = llm_eval_scores
    /\ now' = now + 1
    /\ AfterJudgment
    /\ UNCHANGED <<configVars, pipelineVars, delays, output_file, successful_solves>>

Next ==
    \/ StartTicket
    \/ \E answer \in RouterAnswers : RouterSucceeds(answer)
    \/ \E resp \in Responses(RouterAnswers) : RouterFails(resp)
    \/ \E answer \in SolverAnswers : SolverSucceeds(answer)
    \/ \E resp \in Responses(SolverAnswers) : SolverFails(resp)
    \/ Sleep
    \/ SaveResults
    \/ MetricsOfNothing
    \/ MetricsLoopRaises
    \/ MetricsReturns
    \/ MetricsStartsJudging
    \/ \E answer \in JudgeAnswers : JudgeSucceeds(answer)
    \/ \E resp \in Responses(JudgeAnswers) : JudgeFails(resp)

Spec == Init /\ [][Next]_vars

(* A second call calculate_metrics(all_results, evaluate_with_llm) after the
   first has returned, taken as one step; its judgment calls get the answers
   the calls of the first got.  The judgment requests of the first call are
   the last ones on record, and those that got a score are the ones a pause
   followed. *)
RECURSIVE JudgePauses(_, _, _)
JudgePauses(first, m, n) ==
    IF m > n THEN <<>>
    ELSE IF \E d \in 1..Len(delays) :
                delays[d].kind = "judge" /\ delays[d].after_requests = first + m
         THEN <<[kind |-> "judge", seconds |-> JUDGE_SLEEP_INTERVAL_SECONDS,
                 after_requests |-> first + n + m,
                 after_results |-> Len(all_results)]>> \o JudgePauses(first, m + 1, n)
         ELSE JudgePauses(first, m + 1, n)

SecondCall ==
    /\ pc = "done"
    /\ pc' = "called twice"
    /\ IF Len(all_results) = 0
       THEN metrics' = EmptyDict /\ UNCHANGED <<requests, delays, now>>
       ELSE LET c == MetricsLoop(all_results, 1, ZeroCounters)
                judged == SelectSuccess(all_results)
                n == Len(judged)
                pauses == JudgePauses(Len(requests) - n, 1, n)
            IN  IF evaluate_with_llm /\ judged # <<>>
                THEN /\ metrics' = WithJudgeMetrics(MetricsDict(all_results, c),
                                                    llm_eval_scores)
                     /\ requests' = requests \o [m \in 1..n |-> JudgeRequest(judged[m])]
                     /\ delays' = delays \o pauses
                     /\ now' = now + n + Len(pauses) * JUDGE_SLEEP_INTERVAL_SECONDS
                ELSE /\ metrics' = MetricsDict(all_results, c)
                     /\ UNCHANGED <<requests, delays, now>>
    /\ UNCHANGED <<configVars, pipelineVars, in_flight, response, error, output_file,
                   successful_solves, k, llm_eval_scores>>

(* main() followed by a second call of calculate_metrics, on the smaller
   ticket universe *)
TwoCallsInit ==
    /\ Init
    /\ \A n \in 1..Len(tickets_to_process) : tickets_to_process[n] \in JudgedTicketUniverse

TwoCallsSpec == TwoCallsInit /\ [][Next \/ SecondCall]_vars

(* The ticket loop of main() alone, up to the writing of results.json, on
   the smaller ticket universe.  The service answers every request (with a
   value or an error) and a sleep ends: the program never waits forever. *)
PipelineInit ==
    /\ Init
    /\ ~evaluate_with_llm
    /\ \A n \in 1..Len(tickets_to_process) : tickets_to_process[n] \in JudgedTicketUniverse

PipelineNext ==
    \/ StartTicket
    \/ \E answer \in RouterAnswers : RouterSucceeds(answer)
    \/ \E resp \in Responses(RouterAnswers) : RouterFails(resp)
    \/ \E answer \in SolverAnswers : SolverSucceeds(answer)
    \/ \E resp \in Responses(SolverAnswers) : SolverFails(resp)
    \/ Sleep
    \/ SaveResults

FairPipelineSpec == PipelineInit /\ [][PipelineNext]_vars /\ WF_vars(PipelineNext)

(* The ticket loop with a router that answers every category of the
   enumeration, on unlabelled tickets (the dispatch reads no label). *)
DispatchAnswers ==
    {[category |-> c, urgency |-> LOW, summary |-> "summary"] : c \in TicketCategory}

DispatchSolverAnswers == {[assigned_team |-> BACKEND]}

DispatchInit ==
    /\ Init
    /\ ~evaluate_with_llm
    /\ \A n \in 1..Len(tickets_to_process) : DOMAIN tickets_to_process[n] = {"ticket_id"}

DispatchNext ==
    \/ StartTicket
    \/ \E answer \in DispatchAnswers : RouterSucceeds(answer)
    \/ \E resp \in Responses(DispatchAnswers) : RouterFails(resp)
    \/ \E answer \in DispatchSolverAnswers : SolverSucceeds(answer)
    \/ \E resp \in Responses(DispatchSolverAnswers) : SolverFails(resp)
    \/ Sleep
    \/ SaveResults

DispatchSpec == DispatchInit /\ [][DispatchNext]_vars

(* The ticket loop on longer lists of one unlabelled ticket, with a service
   that gives one valid answer or fails: runs of several batches, the last
   of them full or partial. *)
PacedTicket == TicketWith({}, <<"b","u","g","s">>, <<"l","o","w">>, <<"b","a","c","k","e","n","d">>)

PacedRouterAnswers == {[category |-> BUGS, urgency |-> HIGH, summary |-> "summary"]}

PacedSolverAnswers == {[assigned_team |-> BACKEND]}

PacingInit ==
    /\ evaluate_with_llm = FALSE
    /\ tickets_to_process \in SeqsUpTo({PacedTicket}, MaxPacedTickets)
    /\ batch_size \in BatchSizes
    /\ ticket_batches = create_batches(tickets_to_process, batch_size)
    /\ i = 0
    /\ j = 1
    /\ pc = IF Len(ticket_batches) = 0 THEN "save" ELSE "ticket"
    /\ ticket_for_processing = None
    /\ routing_slip = None
    /\ start_time = 0
    /\ now = 0
    /\ all_results = <<>>
    /\ requests = <<>>
    /\ in_flight = 0
    /\ response = None
    /\ delays = <<>>
    /\ metrics = None
    /\ error = None
    /\ output_file = None
    /\ successful_solves = <<>>
    /\ k = 0
    /\ llm_eval_scores = [relevance |-> <<>>, clarity |-> <<>>, actionability |-> <<>>]

PacingNext ==
    \/ StartTicket
    \/ \E answer \in PacedRouterAnswers : RouterSucceeds(answer)
    \/ \E resp \in Responses(PacedRouterAnswers) : RouterFails(resp)
    \/ \E answer \in PacedSolverAnswers : SolverSucceeds(answer)
    \/ \E resp \in Responses(PacedSolverAnswers) : SolverFails(resp)
    \/ Sleep
    \/ SaveResults

PacingSpec == PacingInit /\ [][PacingNext]_vars

----------------------------------------------------------------------------
(* Vocabulary of the properties *)

(* the ticket loop of main() is over *)
PipelineEnded == pc \in {"save", "metrics", "judging", "done", "crashed"}

(* results.json has been written *)
ResultsSaved == output_file # None

(* calculate_metrics has returned a snapshot of a non-empty result list *)
SnapshotReturned == pc = "done" /\ metrics # EmptyDict

RoutingSucceeded(r) == r.router_output # ROUTING_FAILED

Solved(r) == r.solver_output # None /\ r.solver_output.status = "SUCCESS"

HasLabel(r, key) == key \in DOMAIN r.original_ticket

Envelopes == 1..Len(all_results)

(* the processing state of the n-th input ticket (spec 4.4) *)
TicketState(n) ==
    IF n <= Len(all_results)
    THEN IF ~RoutingSucceeded(all_results[n]) THEN "ROUTE_FAILED"
         ELSE IF Solved(all_results[n]) THEN "SOLVED" ELSE "SOLVE_FAILED"
    ELSE IF n = Len(all_results) + 1 /\ pc = "routing" THEN "ROUTING"
    ELSE IF n = Len(all_results) + 1 /\ pc = "solving" THEN "ROUTED"
    ELSE "PENDING"

TerminalStates == {"SOLVED", "SOLVE_FAILED", "ROUTE_FAILED"}

(* equality of two strings up to the case of their letters, letter by letter *)
CasePairs ==
    {<<"A","a">>, <<"B","b">>, <<"C","c">>, <<"D","d">>, <<"E","e">>, <<"F","f">>,
     <<"G","g">>, <<"H","h">>, <<"I","i">>, <<"J","j">>, <<"K","k">>, <<"L","l">>,
     <<"M","m">>, <<"N","n">>, <<"O","o">>, <<"P","p">>, <<"Q","q">>, <<"R","r">>,
     <<"S","s">>, <<"T","t">>, <<"U","u">>, <<"V","v">>, <<"W","w">>, <<"X","x">>,
     <<"Y","y">>, <<"Z","z">>}

SameLetter(a, b) == a = b \/ <<a, b>> \in CasePairs \/ <<b, a>> \in CasePairs

CaseInsensitiveEqual(s, t) ==
    Len(s) = Len(t) /\ \A n \in 1..Len(s) : SameLetter(s[n], t[n])

----------------------------------------------------------------------------
(* C1: when the ticket loop of main() is over, the result list has exactly
   one envelope per input ticket, and the n-th envelope holds the n-th input
   ticket, whatever the routing and solving calls returned. *)
C1_OneEnvelopePerTicketInOrder ==
    PipelineEnded =>
        /\ Len(all_results) = Len(tickets_to_process)
        /\ \A n \in Envelopes : all_results[n].original_ticket = tickets_to_process[n]

C1_Witness ==
    /\ PipelineEnded
    /\ Len(all_results) = 2
    /\ tickets_to_process[1] # tickets_to_process[2]
    /\ ~RoutingSucceeded(all_results[1])
    /\ RoutingSucceeded(all_results[2])
    /\ ~Solved(all_results[2])

(* C2: no inference request (routing, solver or judgment) carries a
   ground-truth field in its ticket payload. *)
C2_NoGroundTruthInRequests ==
    \A n \in 1..Len(requests) : DOMAIN requests[n].payload \cap GroundTruthKeys = {}

(* C3: when run_router returns None, the step appends an envelope with
   router_output "ROUTING FAILED" and solver_output None and issues no
   request; and no solver request is ever on record for a ticket whose
   envelope is a routing failure. *)
C3_RoutingFailureEndsTicket ==
    /\ [][(pc = "routing" /\ routing_slip' = None) =>
            /\ Len(all_results') = Len(all_results) + 1
            /\ all_results'[Len(all_results')].router_output = ROUTING_FAILED
            /\ all_results'[Len(all_results')].solver_output = None
            /\ requests' = requests]_vars
    /\ [](\A n \in Envelopes :
            ~RoutingSucceeded(all_results[n]) =>
                /\ all_results[n].solver_output = None
                /\ \A q \in 1..Len(requests) :
                      ~(requests[q].kind = "solver" /\ requests[q].ticket_no = n))

C3_Witness ==
    /\ Len(all_results) = 2
    /\ ~RoutingSucceeded(all_results[1])
    /\ all_results[1].original_ticket # all_results[2].original_ticket
    /\ \E q \in 1..Len(requests) : requests[q].kind = "solver" /\ requests[q].ticket_no = 2

(* C4: calculate_metrics (judgment disabled) never raises on the result list
   the pipeline produced. *)
C4_MetricsNeverFail == ~(pc = "crashed" /\ ~evaluate_with_llm)

(* C5: for a non-empty result list (judgment disabled) calculate_metrics
   reports the solver success rate (envelopes with status SUCCESS) / (all
   envelopes), routing failures counted in the denominator. *)
C5_SuccessRateOverAllTickets ==
    (pc \in {"done", "crashed"} /\ Len(all_results) > 0 /\ ~evaluate_with_llm) =>
        /\ pc = "done"
        /\ metrics.solver_evaluation.solver_success_rate_percent =
               Hundredths(100 * Cardinality({n \in Envelopes : Solved(all_results[n])}),
                          Len(all_results))

(* C6: in every snapshot, routing_attempts counts the envelopes with routing
   succeeded and a ground-truth category, urgency_attempts those with routing
   succeeded and a ground-truth urgency, team_assignment_attempts those with
   solver status SUCCESS and a ground-truth team; and the loop body counts an
   envelope of the result list, failed ones included, as attempted exactly in
   these cases. *)
C6_AttemptsNeedPredictionAndLabel ==
    /\ SnapshotReturned =>
        /\ metrics.router_evaluation.routing_accuracy_percent.attempts =
               Cardinality({n \in Envelopes : RoutingSucceeded(all_results[n])
                                /\ HasLabel(all_results[n], "ground_truth_category")})
        /\ metrics.router_evaluation.urgency_accuracy_percent.attempts =
               Cardinality({n \in Envelopes : RoutingSucceeded(all_results[n])
                                /\ HasLabel(all_results[n], "ground_truth_urgency")})
        /\ metrics.solver_evaluation.team_assignment_accuracy_percent.attempts =
               Cardinality({n \in Envelopes : Solved(all_results[n])
                                /\ HasLabel(all_results[n], "ground_truth_team")})
    /\ \A n \in Envelopes :
        LET r == all_results[n]
            c == RouterCounts(ZeroCounters, r)
        IN  /\ c.routing_attempts =
                   IF RoutingSucceeded(r) /\ HasLabel(r, "ground_truth_category")
                   THEN 1 ELSE 0
            /\ c.urgency_attempts =
                   IF RoutingSucceeded(r) /\ HasLabel(r, "ground_truth_urgency")
                   THEN 1 ELSE 0
            /\ r.solver_output # None =>
                   SolverCounts(ZeroCounters, r).team_assignment_attempts =
                       IF Solved(r) /\ HasLabel(r, "ground_truth_team") THEN 1 ELSE 0

C6_Witness ==
    /\ SnapshotReturned
    /\ Len(all_results) = 2
    /\ metrics.router_evaluation.routing_accuracy_percent.attempts = 2
    /\ metrics.router_evaluation.urgency_accuracy_percent.attempts = 1
    /\ metrics.solver_evaluation.team_assignment_accuracy_percent.attempts = 0

(* C7: in every snapshot, each matched count is the number of attempted
   envelopes whose predicted value equals the ground-truth label up to the
   case of the letters. *)
C7_MatchesIgnoreCase ==
    SnapshotReturned =>
        /\ metrics.router_evaluation.routing_accuracy_percent.matched =
               Cardinality({n \in Envelopes :
                   /\ RoutingSucceeded(all_results[n])
                   /\ HasLabel(all_results[n], "ground_truth_category")
                   /\ CaseInsensitiveEqual(
                          all_results[n].original_ticket["ground_truth_category"],
                          all_results[n].router_output.category)})
        /\ metrics.router_evaluation.urgency_accuracy_percent.matched =
               Cardinality({n \in Envelopes :
                   /\ RoutingSucceeded(all_results[n])
                   /\ HasLabel(all_results[n], "ground_truth_urgency")
                   /\ CaseInsensitiveEqual(
                          all_results[n].original_ticket["ground_truth_urgency"],
                          all_results[n].router_output.urgency)})
        /\ metrics.solver_evaluation.team_assignment_accuracy_percent.matched =
               Cardinality({n \in Envelopes :
                   /\ Solved(all_results[n])
                   /\ HasLabel(all_results[n], "ground_truth_team")
                   /\ CaseInsensitiveEqual(
                          all_results[n].original_ticket["ground_truth_team"],
                          all_results[n].solver_output.data.assigned_team)})

(* a label matched although its case differs from the prediction's, next to
   an attempted envelope that did not match *)
C7_Witness ==
    /\ SnapshotReturned
    /\ metrics.router_evaluation.routing_accuracy_percent.matched = 1
    /\ metrics.router_evaluation.routing_accuracy_percent.attempts = 2
    /\ metrics.solver_evaluation.team_assignment_accuracy_percent.matched = 1
    /\ metrics.solver_evaluation.team_assignment_accuracy_percent.attempts = 2
    /\ metrics.router_evaluation.urgency_accuracy_percent.matched = 1

(* C8: when the service answers a routing request with a category or an
   urgency outside the enumerations, the step records a routing failure
   (sentinel, solver_output None) and issues no solver request. *)
C8_OutOfEnumIsRoutingFailure ==
    [][(/\ pc = "routing"
        /\ ~IsFailure(response')
        /\ \/ response'.answer.category \notin TicketCategory
           \/ response'.answer.urgency \notin UrgencyLevel) =>
          /\ Len(all_results') = Len(all_results) + 1
          /\ all_results'[Len(all_results')].router_output = ROUTING_FAILED
          /\ all_results'[Len(all_results')].solver_output = None
          /\ requests' = requests]_vars

C8_Witness ==
    /\ response # None
    /\ ~IsFailure(response)
    /\ "category" \in DOMAIN response.answer
    /\ response.answer.category \notin TicketCategory
    /\ Len(all_results) = 1
    /\ all_results[1].router_output = ROUTING_FAILED
    /\ Len(requests) = 1

(* C9: whatever fails, the run gets to the end of the ticket loop and writes
   the results, with every input ticket in one of the states SOLVED,
   SOLVE_FAILED, ROUTE_FAILED. *)
C9_EveryTicketReachesTerminalState ==
    <>(/\ ResultsSaved
       /\ \A n \in 1..Len(tickets_to_process) : TicketState(n) \in TerminalStates)

C9_Witness ==
    /\ ResultsSaved
    /\ Len(tickets_to_process) = 2
    /\ TicketState(1) = "ROUTE_FAILED"
    /\ TicketState(2) = "SOLVED"

(* C10: a run of calculate_metrics that has issued judgment requests does
   not raise, whatever judgments fail. *)
C10_JudgeFailuresNeverAbort == ~(pc = "crashed" /\ k > 0)

(* C11: a second call of calculate_metrics on the same result list, with the
   same flag and the same judgment answers, returns what the first call
   returned, and the first call left the list as it was. *)
C11_SecondCallSameSnapshot ==
    [][(pc = "done" /\ pc' = "called twice") =>
          /\ metrics' = metrics
          /\ output_file.json = all_results]_vars

C11_Witness ==
    /\ pc = "called twice"
    /\ evaluate_with_llm
    /\ Len(all_results) = 2
    /\ "llm_as_judge_metrics" \in DOMAIN metrics.solver_evaluation
    /\ metrics.solver_evaluation.llm_as_judge_metrics.evaluations_performed = 1

(* C12 as stated: for the empty result list calculate_metrics returns a
   snapshot whose average latency is zero. *)
C12_EmptyListZeroLatency ==
    (pc = "done" /\ Len(all_results) = 0) =>
        /\ "overall_performance" \in DOMAIN metrics
        /\ metrics.overall_performance.average_processing_time_seconds = 0

(* C12 amended: for the empty result list calculate_metrics returns the empty
   dict, which has no average latency (nor any other field). *)
C12_EmptyListEmptyDict ==
    (pc = "done" /\ Len(all_results) = 0) =>
        /\ metrics = EmptyDict
        /\ "overall_performance" \notin DOMAIN metrics

C12_Witness == pc = "done" /\ tickets_to_process = <<>> /\ all_results = <<>>

(* C13: in every snapshot of a non-empty result list, an accuracy whose
   attempt count is 0 is reported as 0 (and so is the success rate when no
   solve succeeded); the snapshot is computed without dividing by zero. *)
C13_ZeroAttemptsZeroPercent ==
    SnapshotReturned =>
        /\ \A a \in {metrics.router_evaluation.routing_accuracy_percent,
                      metrics.router_evaluation.urgency_accuracy_percent,
                      metrics.solver_evaluation.team_assignment_accuracy_percent} :
               /\ a.attempts = 0 => a.percent = 0
               /\ a.attempts > 0 => a.percent = Hundredths(100 * a.matched, a.attempts)
        /\ (\A n \in Envelopes : ~Solved(all_results[n])) =>
               metrics.solver_evaluation.solver_success_rate_percent = 0

C13_Witness ==
    /\ SnapshotReturned
    /\ Len(all_results) = 2
    /\ metrics.router_evaluation.routing_accuracy_percent.attempts = 0
    /\ metrics.router_evaluation.urgency_accuracy_percent.attempts > 0
    /\ metrics.solver_evaluation.team_assignment_accuracy_percent.attempts = 0
    /\ \A n \in Envelopes : ~Solved(all_results[n])

(* the solver the specification assigns to each category *)
DispatchTable ==
    [c \in TicketCategory |->
        CASE c = BUGS -> "BugSolver"
          [] c = QUERY -> "QuerySolver"
          [] c = REQUEST -> "FeatureRequestSolver"
          [] c = SECURITY -> "SecuritySolver"
          [] c = CORRECTNESS -> "CorrectnessSolver"
          [] c = MISCELLANEOUS -> "MiscSolver"]

SolverRequestsOf(n) ==
    {q \in 1..Len(requests) : requests[q].kind = "solver" /\ requests[q].ticket_no = n}

(* C14: every routing slip is dispatched to exactly one solver, the one the
   table gives for its category, and the solver name of the result is that
   solver's name. *)
C14_DispatchIsTheTable ==
    /\ pc = "solving" =>
           /\ routing_slip.category.value \in TicketCategory
           /\ \A q \in SolverRequestsOf(ticket_no) :
                  requests[q].solver = DispatchTable[routing_slip.category.value]
           /\ Cardinality(SolverRequestsOf(ticket_no)) = 1
    /\ \A n \in Envelopes : RoutingSucceeded(all_results[n]) =>
           /\ all_results[n].router_output.category \in TicketCategory
           /\ all_results[n].solver_output.solver =
                  DispatchTable[all_results[n].router_output.category]
           /\ Cardinality(SolverRequestsOf(n)) = 1
           /\ \A q \in SolverRequestsOf(n) :
                  requests[q].solver = all_results[n].solver_output.solver

C14_Witness ==
    /\ Len(all_results) = 2
    /\ RoutingSucceeded(all_results[1]) /\ RoutingSucceeded(all_results[2])
    /\ all_results[1].router_output.category = QUERY
    /\ all_results[1].solver_output.solver = "QuerySolver"
    /\ all_results[2].router_output.category = MISCELLANEOUS
    /\ all_results[2].solver_output.solver = "MiscSolver"

(* the solver's inference call returned a value of the handler's output model *)
SolverCallReturned(resp) ==
    IF IsFailure(resp) THEN FALSE ELSE ValidSolverOutput(resp.answer)

(* C15: when the solver call of a routed ticket ends, the envelope appended
   for the ticket has a solver_output of status SUCCESS holding the solver's
   value exactly when the call returned a value, and of status FAILURE
   holding a reason exactly when the call failed, whatever the failure; the
   envelope holds the wrapped result as it is, with the handler's name. *)
C15_SolverOutputWrapsTheCall ==
    [][pc = "solving" =>
         /\ Len(all_results') = Len(all_results) + 1
         /\ LET envelope == all_results'[Len(all_results')]
                so == envelope.solver_output
            IN /\ RoutingSucceeded(envelope)
               /\ so # None
               /\ DOMAIN so = {"status", "solver", "data"}
               /\ so.status \in {"SUCCESS", "FAILURE"}
               /\ so.status = "SUCCESS" <=> SolverCallReturned(response')
               /\ so.status = "FAILURE" <=> ~SolverCallReturned(response')
               /\ so.solver = HandlerName(routing_slip.category)
               /\ so.status = "SUCCESS" =>
                      so.data = [assigned_team |-> response'.answer.assigned_team]
               /\ so.status = "FAILURE" =>
                      so.data = [str |-> "Could not generate valid structured output."]]_vars

C15_Witness ==
    /\ Len(all_results) = 2
    /\ Solved(all_results[1])
    /\ all_results[1].solver_output.data = [assigned_team |-> TEAM_SECURITY]
    /\ RoutingSucceeded(all_results[2])
    /\ all_results[2].solver_output.status = "FAILURE"
    /\ response = Failure("RateLimited")

(* the pacing delays of the ticket loop, in the order they were taken *)
BatchDelays ==
    LET IsBatchDelay(d) == d.kind = "batch" IN SelectSeq(delays, IsBatchDelay)

(* C16: the d-th pacing delay of the ticket loop is taken after the envelope
   of ticket d * B and only when a ticket remains; a ticket is never started
   with a delay missing or in excess, so no delay falls inside a batch; and
   a finished loop has taken ceil(n / B) - 1 delays, none for n = 0. *)
C16_DelaysOnlyBetweenBatches ==
    LET B == batch_size
        n == Len(tickets_to_process)
    IN /\ \A d \in 1..Len(BatchDelays) :
              /\ BatchDelays[d].after_results = d * B
              /\ BatchDelays[d].after_results < n
              /\ BatchDelays[d].seconds = SLEEP_INTERVAL_SECONDS
       /\ pc \in {"ticket", "routing", "solving"} =>
              Len(BatchDelays) = Len(all_results) \div B
       /\ pc = "sleeping" =>
              /\ Len(all_results) = (Len(BatchDelays) + 1) * B
              /\ Len(all_results) < n
       /\ PipelineEnded =>
              Len(BatchDelays) = IF n = 0 THEN 0 ELSE ((n + B - 1) \div B) - 1

C16_Witness ==
    /\ PipelineEnded
    /\ Len(tickets_to_process) = 5
    /\ batch_size = 2
    /\ Len(BatchDelays) = 2
    /\ BatchDelays[2].after_results = 4
    /\ Len(all_results) = 5

(* the moves of the ticket state machine (spec 4.4) *)
TicketTransitions ==
    {<<"PENDING", "ROUTING">>, <<"ROUTING", "ROUTED">>, <<"ROUTING", "ROUTE_FAILED">>,
     <<"ROUTED", "SOLVED">>, <<"ROUTED", "SOLVE_FAILED">>}

(* C17: in every step every ticket keeps its state or makes one move of the
   state machine: SOLVED and SOLVE_FAILED are entered from ROUTED only,
   ROUTE_FAILED from ROUTING only, and no terminal state is ever left. *)
C17_TicketsFollowTheStateMachine ==
    [][\A n \in 1..Len(tickets_to_process) :
          \/ TicketState(n)' = TicketState(n)
          \/ <<TicketState(n), TicketState(n)'>> \in TicketTransitions]_vars

C17_Witness ==
    /\ Len(tickets_to_process) = 5
    /\ TicketState(1) = "SOLVED"
    /\ TicketState(2) = "ROUTE_FAILED"
    /\ TicketState(3) = "SOLVE_FAILED"
    /\ TicketState(4) = "ROUTED"
    /\ TicketState(5) = "PENDING"

RequestsOf(kind, n) ==
    {q \in 1..Len(requests) : requests[q].kind = kind /\ requests[q].ticket_no = n}

(* C18: every ticket the loop has reached has exactly one routing request
   on record, and one solver request if its routing succeeded, none
   otherwise; a ticket not reached yet has none.  No failure of the service
   adds a request. *)
C18_NoRequestIsRepeated ==
    \A n \in 1..Len(tickets_to_process) :
        LET state == TicketState(n)
        IN /\ Cardinality(RequestsOf("router", n)) = IF state = "PENDING" THEN 0 ELSE 1
           /\ Cardinality(RequestsOf("solver", n)) =
                  IF state \in {"ROUTED", "SOLVED", "SOLVE_FAILED"} THEN 1 ELSE 0

C18_Witness ==
    /\ Len(all_results) = 3
    /\ TicketState(1) = "ROUTE_FAILED"
    /\ TicketState(2) = "SOLVED"
    /\ TicketState(3) = "SOLVE_FAILED"
    /\ response = Failure("RateLimited")
    /\ Len(requests) = 5

(* C19: at most one inference request is in flight; a routing request goes
   out only when none is in flight and the envelopes of all earlier tickets
   are in the result list; a solver request goes out only in the step in
   which the routing request of its ticket returns a slip. *)
C19_OneRequestAtATime ==
    [][/\ in_flight \in {0, 1}
       /\ in_flight' \in {0, 1}
       /\ Len(requests') > Len(requests) =>
              LET request == requests'[Len(requests')]
              IN /\ Len(requests') = Len(requests) + 1
                 /\ request.kind = "router" =>
                        /\ in_flight = 0
                        /\ Len(all_results) = request.ticket_no - 1
                        /\ in_flight' = 1
                 /\ request.kind = "solver" =>
                        /\ in_flight = 1
                        /\ requests[Len(requests)].kind = "router"
                        /\ requests[Len(requests)].ticket_no = request.ticket_no
                        /\ Len(all_results) = request.ticket_no - 1
                        /\ ~IsFailure(response')
                        /\ in_flight' = 1
       /\ Len(all_results') > Len(all_results) => in_flight = 1 /\ in_flight' = 0]_vars

C19_Witness ==
    /\ pc = "solving"
    /\ in_flight = 1
    /\ Len(all_results) = 2
    /\ RequestsOf("router", 3) # {}
    /\ RequestsOf("solver", 3) # {}
    /\ Len(delays) = 1

(* the routing call returned a slip *)
RouterCallReturned(resp) ==
    IF IsFailure(resp) THEN FALSE ELSE ValidRoutingSlip(resp.answer)

(* C20: the result list only grows, by the envelope of the next input
   ticket, and that envelope's router_output and solver_output are given by
   the ticket's own routing and solver responses alone: nothing of the batch
   the ticket is in, or of the batch size, enters it.  Hence runs of the
   same list with the same responses and different batch sizes build the
   same list. *)
C20_EnvelopesIndependentOfBatches ==
    [][/\ (pc = "routing" /\ pc' = "solving") =>
              /\ RouterCallReturned(response')
              /\ ModelDumpSlip(routing_slip') = response'.answer
       /\ \/ all_results' = all_results
          \/ /\ Len(all_results') = Len(all_results) + 1
             /\ Len(all_results') <= Len(tickets_to_process)
             /\ LET m == Len(all_results')
                    envelope == all_results'[m]
                IN /\ all_results' = Append(all_results, envelope)
                   /\ envelope.original_ticket = tickets_to_process[m]
                   /\ pc \in {"routing", "solving"}
                   /\ pc = "routing" =>
                          /\ ~RouterCallReturned(response')
                          /\ envelope.router_output = ROUTING_FAILED
                          /\ envelope.solver_output = None
                   /\ pc = "solving" =>
                          /\ envelope.router_output = ModelDumpSlip(routing_slip)
                          /\ envelope.solver_output =
                                 IF SolverCallReturned(response')
                                 THEN [status |-> "SUCCESS",
                                       solver |-> DispatchTable[routing_slip.category.value],
                                       data |-> [assigned_team |->
                                                    response'.answer.assigned_team]]
                                 ELSE [status |-> "FAILURE",
                                       solver |-> DispatchTable[routing_slip.category.value],
                                       data |-> [str |->
                                           "Could not generate valid structured output."]]]_vars

C20_Witness ==
    /\ PipelineEnded
    /\ batch_size = 1
    /\ Len(delays) = 1
    /\ Len(all_results) = 2
    /\ all_results[1].original_ticket # all_results[2].original_ticket
    /\ Solved(all_results[1])
    /\ all_results[2].router_output = ROUTING_FAILED

(* the judgment requests on record, in the order they were issued *)
JudgeRequests ==
    LET IsJudgeRequest(q) == q.kind = "judge" IN SelectSeq(requests, IsJudgeRequest)

(* the judgment calls that returned a score: a pause follows each of them *)
JudgeDelays ==
    LET IsJudgeDelay(d) == d.kind = "judge" IN SelectSeq(delays, IsJudgeDelay)

(* the envelopes whose solver status is SUCCESS, in list order *)
SolvedEnvelopes ==
    LET n == Cardinality({m \in Envelopes : Solved(all_results[m])})
    IN  CHOOSE s \in [1..n -> Envelopes] :
            /\ \A a \in 1..n : Solved(all_results[s[a]])
            /\ \A a, b \in 1..n : a < b => s[a] < s[b]

(* calculate_metrics is over: it returned or raised *)
MetricsEnded == pc \in {"done", "crashed"}

(* C21: when calculate_metrics is over with the judge enabled, one judgment
   request is on record for each envelope of status SUCCESS and for no
   other; with the judge disabled none is on record and the snapshot has no
   llm_as_judge_metrics section; a section that is present counts the
   judgment calls that succeeded. *)
C21_OneJudgmentPerSolvedEnvelope ==
    MetricsEnded =>
        /\ evaluate_with_llm =>
               /\ Len(JudgeRequests) = Len(SolvedEnvelopes)
               /\ \A a \in 1..Len(JudgeRequests) :
                      /\ JudgeRequests[a].payload =
                             all_results[SolvedEnvelopes[a]].original_ticket
                      /\ JudgeRequests[a].solver_output =
                             all_results[SolvedEnvelopes[a]].solver_output
        /\ ~evaluate_with_llm =>
               /\ Len(JudgeRequests) = 0
               /\ SnapshotReturned =>
                      "llm_as_judge_metrics" \notin DOMAIN metrics.solver_evaluation
        /\ (/\ SnapshotReturned
            /\ "llm_as_judge_metrics" \in DOMAIN metrics.solver_evaluation) =>
               metrics.solver_evaluation.llm_as_judge_metrics.evaluations_performed =
                   Len(JudgeDelays)

(* C22: whenever two judgment requests follow one another, a pacing delay
   was taken after the earlier one, whether its call returned a score or
   failed. *)
C22_PauseBetweenJudgments ==
    \A q \in 1..(Len(requests) - 1) :
        (requests[q].kind = "judge" /\ requests[q + 1].kind = "judge") =>
            \E d \in 1..Len(delays) :
                /\ delays[d].kind = "judge"
                /\ delays[d].after_requests = q

(* what calculate_metrics(results, evaluate_with_llm=False) returns or raises *)
MetricsWithoutJudge(results) ==
    IF Len(results) = 0 THEN EmptyDict
    ELSE LET c == MetricsLoop(results, 1, ZeroCounters)
         IN  IF c.raised THEN Exception("AttributeError") ELSE MetricsDict(results, c)

Permuted(results, p) == [n \in 1..Len(results) |-> results[p[n]]]

(* C23: with the judge disabled, calculate_metrics gives for every
   permutation of the result list what it gave for the list: the same
   snapshot (counts, accuracies, success rate, average latency). *)
C23_MetricsIgnoreOrder ==
    (SnapshotReturned /\ ~evaluate_with_llm) =>
        \A p \in Permutations(Envelopes) :
            MetricsWithoutJudge(Permuted(all_results, p)) = metrics

(* C23, on the lists calculate_metrics raises on: it raises the same on
   every permutation of them. *)
C23_RaisesIgnoreOrder ==
    (pc = "crashed" /\ ~evaluate_with_llm) =>
        \A p \in Permutations(Envelopes) :
            MetricsWithoutJudge(Permuted(all_results, p)) = error

C23_Witness ==
    /\ SnapshotReturned
    /\ ~evaluate_with_llm
    /\ Len(all_results) = 2
    /\ Solved(all_results[2]) /\ ~Solved(all_results[1])
    /\ HasLabel(all_results[2], "ground_truth_team")
    /\ ~HasLabel(all_results[1], "ground_truth_team")
    /\ metrics.solver_evaluation.team_assignment_accuracy_percent.attempts = 1

(* C24: every envelope's original_ticket carries each ground-truth field of
   the input ticket it was made for, with the input's value, and is that
   ticket; no routing or solver request carries a ground-truth field, nor
   does the copy the loop is working on. *)
C24_SanitizeLeavesOriginal ==
    /\ \A n \in Envelopes :
           /\ \A key \in GroundTruthKeys \cap DOMAIN tickets_to_process[n] :
                  /\ key \in DOMAIN all_results[n].original_ticket
                  /\ all_results[n].original_ticket[key] = tickets_to_process[n][key]
           /\ all_results[n].original_ticket = tickets_to_process[n]
    /\ \A q \in 1..Len(requests) :
           requests[q].kind \in {"router", "solver"} =>
               DOMAIN requests[q].payload \cap GroundTruthKeys = {}
    /\ pc \in {"routing", "solving"} =>
           /\ DOMAIN ticket_for_processing \cap GroundTruthKeys = {}
           /\ ticket = tickets_to_process[Len(all_results) + 1]

C24_Witness ==
    /\ Len(all_results) = 2
    /\ GroundTruthKeys \subseteq DOMAIN tickets_to_process[2]
    /\ GroundTruthKeys \subseteq DOMAIN all_results[2].original_ticket
    /\ Solved(all_results[2])
    /\ RequestsOf("solver", 2) # {}
    /\ \A q \in RequestsOf("solver", 2) : requests[q].payload = [ticket_id |-> "T"]

(* C25: no step changes an envelope that is in the result list: the list
   keeps every envelope it has, at its place, and once the ticket loop is
   over (calculate_metrics running, judging or done) the list is what it
   was. *)
C25_EnvelopesAreNeverChanged ==
    [][/\ Len(all_results') >= Len(all_results)
       /\ \A n \in Envelopes : all_results'[n] = all_results[n]
       /\ PipelineEnded => all_results' = all_results]_vars

C25_Witness ==
    /\ pc = "done"
    /\ evaluate_with_llm
    /\ Len(all_results) = 2
    /\ Len(JudgeRequests) = 2
    /\ "llm_as_judge_metrics" \in DOMAIN metrics.solver_evaluation
    /\ output_file.json = all_results

(* C26: in every snapshot the counters are nested (matches within attempts,
   attempts within the routed envelopes, team attempts within the successful
   solves, those within the routed envelopes, those within all tickets), and
   every percentage is between 0 and 100 (in hundredths: 0..10000). *)
C26_CountersAreNested ==
    SnapshotReturned =>
        LET routing == metrics.router_evaluation.routing_accuracy_percent
            urgency == metrics.router_evaluation.urgency_accuracy_percent
            team == metrics.solver_evaluation.team_assignment_accuracy_percent
            routed == Cardinality({n \in Envelopes : RoutingSucceeded(all_results[n])})
            solved == Cardinality({n \in Envelopes : Solved(all_results[n])})
            total == metrics.overall_performance.total_tickets_processed
        IN  /\ 0 <= routing.matched /\ routing.matched <= routing.attempts
            /\ routing.attempts <= routed
            /\ 0 <= urgency.matched /\ urgency.matched <= urgency.attempts
            /\ urgency.attempts <= routed
            /\ 0 <= team.matched /\ team.matched <= team.attempts
            /\ team.attempts <= solved
            /\ solved <= routed
            /\ routed <= total
            /\ total = Len(all_results)
            /\ \A percent \in {routing.percent, urgency.percent, team.percent,
                                 metrics.solver_evaluation.solver_success_rate_percent} :
                   0 <= percent /\ percent <= 10000

C26_Witness ==
    /\ SnapshotReturned
    /\ Len(all_results) = 2
    /\ metrics.router_evaluation.routing_accuracy_percent.matched = 0
    /\ metrics.router_evaluation.routing_accuracy_percent.attempts = 1
    /\ metrics.solver_evaluation.team_assignment_accuracy_percent.matched = 1
    /\ metrics.solver_evaluation.team_assignment_accuracy_percent.attempts = 1
    /\ metrics.solver_evaluation.solver_success_rate_percent = 5000
====
